---- MODULE Spec2Model ----
(***************************************************************************)
(* Internal transfers system: the transfer engine (TransferService), the    *)
(* account service and the ledger store they run against.                   *)
(*                                                                          *)
(* The store is PostgreSQL reached through the repositories of              *)
(* internal/repository: READ COMMITTED transactions, SELECT ... FOR UPDATE  *)
(* row locks held until commit or rollback, writes private to their         *)
(* transaction until commit.  Every call of the service is a process; one   *)
(* action is one store round trip together with the local computation that  *)
(* follows it.                                                              *)
(***************************************************************************)
EXTENDS Integers, Sequences, FiniteSets, TLC

\* ----------------------------------------------------------------- bounds
\* concurrent calls
NumProcs == 2
\* account ids a caller can name
MaxAccountID == 3
\* account ids the store has rows for: two for each of two concurrent calls
MaxStoreID == 4
\* accounts 1..NumAccounts exist when the concurrent calls start
NumAccounts == 2
\* TransferServiceConfig.MaxRetries
MaxRetries == 2
\* store failures and cancellations the environment injects among
\* concurrent calls
MaxFaults == 1

Procs == 1..NumProcs
Accounts == 1..MaxStoreID
\* the ids callers name
CallerIDs == 1..MaxAccountID
\* balances an account may hold when the service starts
InitBalances == {0, 2}

\* ------------------------------------------------------------------ money
\* Amount texts are sequences of characters.
Digits == <<"0", "1", "2", "3", "4", "5", "6", "7", "8", "9">>

IsDigit(c) == \E i \in 1..10 : Digits[i] = c

DigitValue(c) == (CHOOSE i \in 1..10 : Digits[i] = c) - 1

RECURSIVE DigitsValue(_)
DigitsValue(s) ==
    IF s = <<>> THEN 0
    ELSE 10 * DigitsValue(SubSeq(s, 1, Len(s) - 1)) + DigitValue(s[Len(s)])

AllDigits(s) == Len(s) > 0 /\ \A i \in 1..Len(s) : IsDigit(s[i])

\* decimal.NewFromString on the integer literals: an optional sign, then
\* one or more digits; every other text is an error.
NewFromString(s) ==
    IF Len(s) > 0 /\ s[1] \in {"-", "+"}
    THEN IF AllDigits(Tail(s))
         THEN [ok |-> TRUE,
               val |-> IF s[1] = "-" THEN 0 - DigitsValue(Tail(s))
                       ELSE DigitsValue(Tail(s))]
         ELSE [ok |-> FALSE, val |-> 0]
    ELSE IF AllDigits(s) THEN [ok |-> TRUE, val |-> DigitsValue(s)]
         ELSE [ok |-> FALSE, val |-> 0]

ParseMoney(s) ==
    IF s = <<>> THEN [ok |-> FALSE, val |-> 0]
    ELSE NewFromString(s)

\* the amount texts a caller sends
AmountTexts ==
    { <<>>, <<"a">>, <<"0">>, <<"-", "1">>, <<"1">>, <<"2">> }

\* those of them that concurrent callers send
PositiveTexts == { <<"1">>, <<"2">> }

BalanceTexts == { <<"0">>, <<"2">> }

\* the amount text of the calls whose termination is examined
LiveTexts == { <<"1">> }

\* ----------------------------------------------------------------- errors
\* An error is its chain of wrapped errors, outermost first.  A layer is a
\* DomainError (code, message) or, with code "", a plain error text.
NoErr == <<>>

Layer(code, msg) == [code |-> code, msg |-> msg]

CodeAccountNotFound == "account_not_found"
CodeInsufficientBalance == "insufficient_balance"
CodeInvalidAmount == "invalid_amount"
CodeSameAccount == "same_account"
CodeAccountAlreadyExists == "account_exists"
CodeDatabaseError == "database_error"
CodeTransactionFailed == "transaction_failed"
CodeTransferNotFound == "transaction_not_found"
CodeDuplicateTransaction == "duplicate_transaction"
CodeInternalError == "internal_error"

NewDomainError(code, msg) == <<Layer(code, msg)>>

WrapError(code, msg, cause) == <<Layer(code, msg)>> \o cause

\* fmt.Errorf("<prefix>: %w", cause)
Errorf(prefix, cause) == <<Layer("", prefix)>> \o cause

ErrAccountNotFound ==
    NewDomainError(CodeAccountNotFound, <<"account", "not", "found">>)
ErrInsufficientBalance ==
    NewDomainError(CodeInsufficientBalance,
                   <<"insufficient", "balance", "for", "this", "transaction">>)
ErrInvalidAmount ==
    NewDomainError(CodeInvalidAmount,
                   <<"amount", "must", "be", "a", "positive", "decimal", "value">>)
ErrAccountAlreadyExists ==
    NewDomainError(CodeAccountAlreadyExists,
                   <<"account", "with", "this", "ID", "already", "exists">>)
ErrSameAccount ==
    NewDomainError(CodeSameAccount,
                   <<"source", "and", "destination", "accounts", "cannot",
                     "be", "the", "same">>)

ErrTransferNotFound ==
    NewDomainError(CodeTransferNotFound, <<"transaction", "not", "found">>)
ErrDuplicateTransaction ==
    NewDomainError(CodeDuplicateTransaction, <<"duplicate", "transaction", "detected">>)

\* mutant: two errors match when they are the same in every part
IsIdentical(e, target) == e = target

\* DomainError.Is: e and target are domain errors of the same code
DomainErrorIs(e, target) ==
    /\ e # NoErr /\ target # NoErr
    /\ e[1].code # "" /\ target[1].code # ""
    /\ e[1].code = target[1].code

\* DomainError.Is under errors.Is: some layer of err carries target's code
ErrorsIs(err, target) ==
    /\ target # NoErr
    /\ \E i \in 1..Len(err) :
          IF target[1].code = "" THEN err[i] = target[1]
          ELSE err[i].code = target[1].code

\* err.Error(): the words of every layer, outermost first
RECURSIVE ErrorText(_)
ErrorText(err) ==
    IF err = NoErr THEN <<>>
    ELSE (IF err[1].code = "" THEN <<>> ELSE <<err[1].code>>)
         \o err[1].msg \o ErrorText(Tail(err))

\* strings.ToLower on the words that occur with capitals
ToLower(w) ==
    CASE w = "Connection" -> "connection"
      [] w = "DEADLOCK" -> "deadlock"
      [] OTHER -> w

RetryPatterns == {"deadlock", "serialize", "connection", "timeout"}

\* mutant: no error is classified retryable
IsRetryableNever(err) == FALSE

\* mutant: every error is classified retryable
IsRetryableAny(err) == err # NoErr

IsRetryable(err) ==
    IF err = NoErr THEN FALSE
    ELSE LET errStr == ErrorText(err)
         IN \E i \in 1..Len(errStr) : ToLower(errStr[i]) \in RetryPatterns

\* what the store's driver reports when an operation fails
DeadlockCause == <<Layer("", <<"deadlock", "detected">>)>>
PermissionCause == <<Layer("", <<"permission", "denied">>)>>
ConnectionCause == <<Layer("", <<"connection", "reset", "by", "peer">>)>>
StoreCauses == {DeadlockCause, PermissionCause}

\* the driver's report of a violated primary key
DuplicateKeyCause ==
    <<Layer("", <<"ERROR:", "duplicate", "key", "value", "violates", "unique",
                  "constraint", "(SQLSTATE", "23505)">>)>>

ContextCanceled == <<Layer("", <<"context", "canceled">>)>>
DeadlineExceeded == <<Layer("", <<"context", "deadline", "exceeded">>)>>


CtxErr(c) == IF c = "deadline" THEN DeadlineExceeded ELSE ContextCanceled

\* ----------------------------------------------------------- HTTP handler
\* mapDomainError: the status for an error code
mapDomainError(code) ==
    CASE code = CodeAccountNotFound -> 404
      [] code = CodeAccountAlreadyExists -> 409
      [] code = CodeInsufficientBalance -> 422
      [] code = CodeInvalidAmount -> 400
      [] code = CodeSameAccount -> 400
      [] code = CodeTransferNotFound -> 404
      [] code = CodeDuplicateTransaction -> 409
      [] OTHER -> 500

\* errors.As(err, &domainErr): the outermost DomainError of the chain
IsDomainLayer(l) == l.code # ""

FirstDomainError(err) ==
    LET i == CHOOSE k \in 1..Len(err) :
                 IsDomainLayer(err[k]) /\ \A j \in 1..(k - 1) : ~IsDomainLayer(err[j])
    IN err[i]

\* handleServiceError: the status written for the error of a service call
handleServiceError(err) ==
    IF ErrorsIs(err, ContextCanceled) THEN 400
    ELSE IF ErrorsIs(err, DeadlineExceeded) THEN 504
    ELSE IF \E k \in 1..Len(err) : IsDomainLayer(err[k])
    THEN mapDomainError(FirstDomainError(err).code)
    ELSE 500

\* ------------------------------------------------------------------ state
VARIABLES
    accounts,   \* store: ids of the rows of table accounts
    balance,    \* store: committed balance of every account row
    lockedBy,   \* store: the call whose transaction holds the row lock, or 0
    ledger,     \* store: committed rows of table transactions, in commit order
    nextID,     \* store: next value of the transaction_id sequence
    pc,         \* call: where the call is
    req,        \* call: the CreateTransactionRequest
    ctx,        \* call: the caller's context: "live", "canceled", "deadline"
    attempt,    \* call: loop counter of Transfer
    attemptErr, \* call: error executeTransfer is returning (rollback pending)
    first,      \* call: row read by the first GetByIDForUpdate
    second,     \* call: row read by the second GetByIDForUpdate
    wbal,       \* open transaction: balances written, not yet committed
    wtxn,       \* open transaction: transaction row inserted, not yet committed
    result,     \* call: what Transfer returned
    initBal,    \* history: balance each account was created with
    hist,       \* history: how each attempt of the call ended
    commits,    \* history: commits of the call that took effect in the store
    budget,     \* environment: store failures and cancellations still to come
    maxRetries, \* service: config.MaxRetries
    retryBaseDelay, \* service: config.RetryBaseDelay, in milliseconds
    waits       \* history: the delays the call has waited out in backoff

storeVars == <<accounts, balance, lockedBy, ledger, nextID>>
txVars == <<first, second, wbal, wtxn>>
callVars == <<pc, req, ctx, attempt, attemptErr, result>>
histVars == <<initBal, hist, commits>>
envVars == <<budget>>
cfgVars == <<maxRetries, retryBaseDelay>>
timeVars == <<waits>>
vars == <<storeVars, txVars, callVars, histVars, envVars, cfgVars, timeVars>>

NoAccount == [AccountID |-> 0, Balance |-> 0]
NoTxn == [TransactionID |-> 0, SourceAccountID |-> 0,
          DestinationAccountID |-> 0, Amount |-> 0]
NoReq == [op |-> "none"]
NoResult ==
    [status |-> "none", txn |-> NoTxn, account |-> NoAccount, err |-> NoErr, http |-> 0]

\* CreateTransactionRequest
TransferRequests(texts) ==
    [op : {"transfer"}, source : CallerIDs, dest : CallerIDs, amount : texts]

\* CreateAccountRequest
AccountRequests(texts) ==
    [op : {"create"}, account_id : CallerIDs, initial_balance : texts]

Requests == TransferRequests(PositiveTexts) \cup AccountRequests(BalanceTexts)

InitWith(accountSets, faults) ==
    /\ accounts \in accountSets
    /\ balance \in [Accounts -> InitBalances \cup {0}]
    /\ \A a \in Accounts \ accounts : balance[a] = 0
    /\ lockedBy = [a \in Accounts |-> 0]
    /\ ledger = <<>>
    /\ nextID = 1
    /\ pc = [p \in Procs |-> "idle"]
    /\ req = [p \in Procs |-> NoReq]
    /\ ctx = [p \in Procs |-> "live"]
    /\ attempt = [p \in Procs |-> 0]
    /\ attemptErr = [p \in Procs |-> NoErr]
    /\ first = [p \in Procs |-> NoAccount]
    /\ second = [p \in Procs |-> NoAccount]
    /\ wbal = [p \in Procs |-> {}]
    /\ wtxn = [p \in Procs |-> {}]
    /\ result = [p \in Procs |-> NoResult]
    /\ initBal = balance
    /\ hist = [p \in Procs |-> <<>>]
    /\ commits = [p \in Procs |-> 0]
    /\ budget = faults
    /\ waits = [p \in Procs |-> <<>>]

\* DefaultTransferConfig
DefaultMaxRetries == 3
\* DefaultTransferConfig: 100 * time.Millisecond
DefaultRetryBaseDelay == 100

\* the service under test: MaxRetries retries, the default base delay
Configured == maxRetries = MaxRetries /\ retryBaseDelay = DefaultRetryBaseDelay

Init == InitWith({1..NumAccounts}, MaxFaults) /\ Configured

InitOne == InitWith(SUBSET CallerIDs, MaxRetries + 1) /\ Configured

\* base delays a service is configured with, in milliseconds
BaseDelays == {1, DefaultRetryBaseDelay}

\* NewTransferServiceWithConfig: the service keeps the MaxRetries and the
\* RetryBaseDelay it is given; NewTransferService gives it the defaults
InitConfig ==
    /\ InitWith({1..NumAccounts}, DefaultMaxRetries)
    /\ maxRetries \in (-1..MaxRetries) \cup {DefaultMaxRetries}
    /\ retryBaseDelay \in BaseDelays

\* ------------------------------------------------------- transfer engine
Amount(p) == ParseMoney(req[p].amount).val

\* mutant: the amount is checked before the account ids
ValidateAmountFirst(r) ==
    LET amount == ParseMoney(r.amount)
    IN IF ~amount.ok THEN ErrInvalidAmount
       ELSE IF amount.val <= 0 THEN ErrInvalidAmount
       ELSE IF r.source = r.dest THEN ErrSameAccount
       ELSE NoErr

\* mutant: only a negative amount is rejected
ValidateZeroAllowed(r) ==
    IF r.source = r.dest THEN ErrSameAccount
    ELSE LET amount == ParseMoney(r.amount)
         IN IF ~amount.ok THEN ErrInvalidAmount
            ELSE IF amount.val < 0 THEN ErrInvalidAmount
            ELSE NoErr

\* Transfer: the checks made before the retry loop
Validate(r) ==
    IF r.source = r.dest THEN ErrSameAccount
    ELSE LET amount == ParseMoney(r.amount)
         IN IF ~amount.ok THEN ErrInvalidAmount
            ELSE IF amount.val <= 0 THEN ErrInvalidAmount
            ELSE NoErr

\* mutant: the rows are locked in the order the request names them
RequestOrder(r) == <<r.source, r.dest>>

\* executeTransfer: firstID, secondID, the lower id first
LockOrder(r) ==
    IF r.source > r.dest THEN <<r.dest, r.source>> ELSE <<r.source, r.dest>>

FirstID(r) == LockOrder(r)[1]

SecondID(r) == LockOrder(r)[2]

\* mutant: the first locked row is taken for the source
FirstIsSource(r, fst, snd) == fst

\* executeTransfer: the locked rows back in their roles
SourceAccount(r, fst, snd) == IF FirstID(r) = r.source THEN fst ELSE snd

DestAccount(r, fst, snd) == IF FirstID(r) = r.source THEN snd ELSE fst

\* mutant: the comparison is reversed
InsufficientReversed(sourceBalance, amount) == amount < sourceBalance

\* mutant: a transfer of the whole balance is refused
InsufficientOrEqual(sourceBalance, amount) == sourceBalance <= amount

\* executeTransfer: sourceAccount.Balance.LessThan(amount)
InsufficientBalance(sourceBalance, amount) == sourceBalance < amount

NewSourceBalance(sourceBalance, amount) == sourceBalance - amount

\* mutant: the destination is not credited
NotCredited(destBalance, amount) == destBalance

NewDestBalance(destBalance, amount) == destBalance + amount

\* the causes a store operation of call p can fail with
FailCauses(p) ==
    StoreCauses \cup (IF ctx[p] = "live" THEN {} ELSE {CtxErr(ctx[p])})

\* the causes tx.Commit can report although the store has committed
LostCauses(p) ==
    {ConnectionCause} \cup (IF ctx[p] = "live" THEN {} ELSE {CtxErr(ctx[p])})

\* a failure injected by the store spends the budget; one that follows from
\* the ended context does not
Charge(cause) ==
    IF cause \in StoreCauses \cup {ConnectionCause}
    THEN budget > 0 /\ budget' = budget - 1
    ELSE UNCHANGED budget

\* history entry of an attempt: where it ended ("lock": a GetByIDForUpdate
\* failed in the store; "store": another store operation failed; "lost": the
\* commit took effect and reported an error; "missing", "funds", "ok") and
\* the cause the store gave
Kind(at) ==
    CASE at \in {"lock1", "lock2"} -> "lock"
      [] at \in {"begin", "update_source", "update_dest", "create", "commit"} -> "store"
      [] OTHER -> at

Outcome(at, cause) == [at |-> Kind(at), cause |-> cause]

\* the service call returns to its handler, which writes the response
Return(p, res) ==
    /\ pc' = [pc EXCEPT ![p] = "done"]
    /\ result' = [result EXCEPT ![p] = res]

\* an error: handleServiceError writes its status
ErrResult(e) ==
    [status |-> "err", txn |-> NoTxn, account |-> NoAccount, err |-> e,
     http |-> handleServiceError(e)]

\* CreateTransaction answers 201 Created
OkResult(txn) ==
    [status |-> "ok", txn |-> txn, account |-> NoAccount, err |-> NoErr, http |-> 201]

\* CreateAccount answers 201 Created
AccountResult(acc) ==
    [status |-> "ok", txn |-> NoTxn, account |-> acc, err |-> NoErr, http |-> 201]

\* mutant: the loop runs once more
LoopOneMore(n) == n <= maxRetries + 1

\* Transfer: the loop condition, attempt <= s.config.MaxRetries
LoopContinues(n) == n <= maxRetries

\* mutant: the error of the last attempt is returned as it is
ExhaustedRaw(lastErr) == lastErr

\* Transfer: the error returned when the loop ends
ExhaustedErr(lastErr) ==
    WrapError(CodeTransactionFailed,
              <<"transfer", "failed", "after", "retries">>, lastErr)

\* Transfer: what the loop does with the error of an attempt
AfterAttempt(p, lastErr) ==
    IF ~IsRetryable(lastErr)
    THEN /\ Return(p, ErrResult(lastErr))
         /\ UNCHANGED attempt
    ELSE IF LoopContinues(attempt[p] + 1)
    THEN /\ attempt' = [attempt EXCEPT ![p] = attempt[p] + 1]
         /\ pc' = [pc EXCEPT ![p] = "backoff"]
         /\ UNCHANGED result
    ELSE /\ Return(p, ErrResult(ExhaustedErr(lastErr)))
         /\ UNCHANGED attempt

\* an operation inside the open transaction fails: executeTransfer is about
\* to return err, its deferred Rollback still to run
FailAttempt(p, at, cause, e) ==
    /\ attemptErr' = [attemptErr EXCEPT ![p] = e]
    /\ hist' = [hist EXCEPT ![p] = Append(hist[p], Outcome(at, cause))]
    /\ pc' = [pc EXCEPT ![p] = "rollback"]

Transfer(p, R) ==
    /\ pc[p] = "idle"
    /\ \E r \in {x \in R : x.op = "transfer"} :
        /\ req' = [req EXCEPT ![p] = r]
        /\ IF Validate(r) # NoErr
           THEN Return(p, ErrResult(Validate(r)))
           ELSE IF ~LoopContinues(0)
           THEN Return(p, ErrResult(ExhaustedErr(NoErr)))
           ELSE /\ pc' = [pc EXCEPT ![p] = "begin"]
                /\ UNCHANGED result
    /\ UNCHANGED <<cfgVars, timeVars, storeVars, txVars, ctx, attempt, attemptErr, histVars, envVars>>

\* the caller cancels, or its deadline passes, before the call or while an
\* attempt runs
Cancel(p) ==
    /\ pc[p] \notin {"done", "backoff"}
    /\ ctx[p] = "live"
    /\ \E c \in {"canceled", "deadline"} : ctx' = [ctx EXCEPT ![p] = c]
    /\ budget > 0
    /\ budget' = budget - 1
    /\ UNCHANGED <<cfgVars, timeVars, storeVars, txVars, pc, req, attempt, attemptErr, result, histVars>>

\* mutant: every wait is the base delay
BackoffFlat(n) == retryBaseDelay

\* Transfer: delay := RetryBaseDelay * time.Duration(1<<uint(attempt-1)), in
\* milliseconds; the delays of the configurations modelled stay far inside
\* the 64 bits of time.Duration
BackoffDelay(n) == retryBaseDelay * 2^(n - 1)

\* mutant: the wait is a plain sleep that does not look at the context
BackoffSleeps(p) ==
    /\ pc[p] = "backoff"
    /\ pc' = [pc EXCEPT ![p] = "begin"]
    /\ waits' = [waits EXCEPT ![p] = Append(@, BackoffDelay(attempt[p]))]
    /\ UNCHANGED <<cfgVars, storeVars, txVars, req, ctx, attempt, attemptErr, result, histVars, envVars>>

\* Transfer: the backoff select, timer branch
BackoffElapsed(p) ==
    /\ pc[p] = "backoff"
    /\ ctx[p] = "live"
    /\ pc' = [pc EXCEPT ![p] = "begin"]
    /\ waits' = [waits EXCEPT ![p] = Append(@, BackoffDelay(attempt[p]))]
    /\ UNCHANGED <<cfgVars, storeVars, txVars, req, ctx, attempt, attemptErr, result, histVars, envVars>>

\* Transfer: the backoff select, ctx.Done branch: the context has ended, or
\* ends while the call waits
BackoffCancelled(p) ==
    /\ pc[p] = "backoff"
    /\ \E c \in (IF ctx[p] = "live" THEN {"canceled", "deadline"} ELSE {ctx[p]}) :
        /\ ctx' = [ctx EXCEPT ![p] = c]
        /\ Return(p, ErrResult(CtxErr(c)))
    /\ UNCHANGED <<cfgVars, timeVars, storeVars, txVars, req, attempt, attemptErr, histVars, envVars>>

BeginTx(p) ==
    /\ pc[p] = "begin"
    /\ pc' = [pc EXCEPT ![p] = "lock1"]
    /\ UNCHANGED <<cfgVars, timeVars, storeVars, txVars, req, ctx, attempt, attemptErr, result, histVars, envVars>>

\* executeTransfer: the error it returns when BeginTx fails
BeginErr(cause) ==
    WrapError(CodeDatabaseError, <<"failed", "to", "begin", "transaction">>,
              Errorf(<<"begin", "transaction">>, cause))

\* the causes BeginTx can fail with: no connection to the store can be had,
\* the store refuses, or the context has ended
BeginCauses(p) ==
    {ConnectionCause, PermissionCause}
        \cup (IF ctx[p] = "live" THEN {} ELSE {CtxErr(ctx[p])})

BeginTxFails(p) ==
    /\ pc[p] = "begin"
    /\ \E cause \in BeginCauses(p) :
        /\ Charge(cause)
        /\ hist' = [hist EXCEPT ![p] = Append(hist[p], Outcome("begin", cause))]
        /\ AfterAttempt(p, BeginErr(cause))
    /\ UNCHANGED <<cfgVars, timeVars, storeVars, txVars, req, ctx, attemptErr, initBal, commits>>

\* ---------------------------------------------------- inside a transaction
\* mutant: the read returns the balance the account started with
RowStale(id) == [AccountID |-> id, Balance |-> initBal[id]]

\* the committed row of account id
Row(id) == [AccountID |-> id, Balance |-> balance[id]]

\* AccountRepository.GetByIDForUpdate finds no row
LockNotFound(p, at, id) ==
    /\ id \notin accounts
    /\ FailAttempt(p, "missing", NoErr, ErrAccountNotFound)
    /\ UNCHANGED budget

\* AccountRepository.GetByIDForUpdate fails in the store
LockFails(p, at) ==
    \E cause \in FailCauses(p) :
        /\ Charge(cause)
        /\ FailAttempt(p, at, cause,
                    Errorf(<<"get", "account", "for", "update">>, cause))

\* mutant: FOR UPDATE locks the table
TableLockFree(p, id) == \A a \in Accounts : lockedBy[a] \in {0, p}

\* mutant: the read does not wait for the row lock
RowLockIgnored(p, id) == TRUE

\* SELECT ... FOR UPDATE: no other transaction holds the lock of the row
RowLockFree(p, id) == lockedBy[id] \in {0, p}

\* first GetByIDForUpdate: the row lock is free and is taken
LockFirst(p) ==
    /\ pc[p] = "lock1"
    /\ LET id == FirstID(req[p])
       IN /\ id \in accounts
          /\ RowLockFree(p, id)
          /\ lockedBy' = [lockedBy EXCEPT ![id] = p]
          /\ first' = [first EXCEPT ![p] = Row(id)]
    /\ pc' = [pc EXCEPT ![p] = "lock2"]
    /\ UNCHANGED <<cfgVars, timeVars, accounts, balance, ledger, nextID, second, wbal, wtxn,
                   req, ctx, attempt, attemptErr, result, histVars, envVars>>

LockFirstFails(p) ==
    /\ pc[p] = "lock1"
    /\ \/ LockNotFound(p, "lock1", FirstID(req[p]))
       \/ LockFails(p, "lock1")
    /\ UNCHANGED <<cfgVars, timeVars, storeVars, txVars, req, ctx, attempt, result, initBal, commits>>

\* second GetByIDForUpdate, then the roles and the balance check
LockSecond(p) ==
    /\ pc[p] = "lock2"
    /\ LET id == SecondID(req[p])
           sourceAccount == SourceAccount(req[p], first[p], Row(id))
       IN /\ id \in accounts
          /\ RowLockFree(p, id)
          /\ lockedBy' = [lockedBy EXCEPT ![id] = p]
          /\ second' = [second EXCEPT ![p] = Row(id)]
          /\ IF InsufficientBalance(sourceAccount.Balance, Amount(p))
             THEN FailAttempt(p, "funds", NoErr, ErrInsufficientBalance)
             ELSE /\ pc' = [pc EXCEPT ![p] = "update_source"]
                  /\ UNCHANGED <<attemptErr, hist>>
    /\ UNCHANGED <<cfgVars, timeVars, accounts, balance, ledger, nextID, first, wbal, wtxn,
                   req, ctx, attempt, result, initBal, commits, envVars>>

LockSecondFails(p) ==
    /\ pc[p] = "lock2"
    /\ \/ LockNotFound(p, "lock2", SecondID(req[p]))
       \/ LockFails(p, "lock2")
    /\ UNCHANGED <<cfgVars, timeVars, storeVars, txVars, req, ctx, attempt, result, initBal, commits>>

\* mutant: an update discards the transaction's earlier update
WriteAlone(w, id, newBalance) == {[AccountID |-> id, Balance |-> newBalance]}

\* AccountRepository.UpdateBalance inside the transaction
WriteBalance(w, id, newBalance) ==
    {x \in w : x.AccountID # id} \cup {[AccountID |-> id, Balance |-> newBalance]}

UpdateFails(p, at, msg) ==
    \E cause \in FailCauses(p) :
        /\ Charge(cause)
        /\ FailAttempt(p, at, cause,
            WrapError(CodeDatabaseError, msg,
                      Errorf(<<"update", "balance", "for", "account">>, cause)))

UpdateSource(p) ==
    /\ pc[p] = "update_source"
    /\ LET sourceAccount == SourceAccount(req[p], first[p], second[p])
       IN wbal' = [wbal EXCEPT ![p] =
              WriteBalance(wbal[p], sourceAccount.AccountID,
                           NewSourceBalance(sourceAccount.Balance, Amount(p)))]
    /\ pc' = [pc EXCEPT ![p] = "update_dest"]
    /\ UNCHANGED <<cfgVars, timeVars, storeVars, first, second, wtxn,
                   req, ctx, attempt, attemptErr, result, histVars, envVars>>

UpdateSourceFails(p) ==
    /\ pc[p] = "update_source"
    /\ UpdateFails(p, "update_source",
                   <<"failed", "to", "update", "source", "balance">>)
    /\ UNCHANGED <<cfgVars, timeVars, storeVars, txVars, req, ctx, attempt, result, initBal, commits>>

UpdateDest(p) ==
    /\ pc[p] = "update_dest"
    /\ LET destAccount == DestAccount(req[p], first[p], second[p])
       IN wbal' = [wbal EXCEPT ![p] =
              WriteBalance(wbal[p], destAccount.AccountID,
                           NewDestBalance(destAccount.Balance, Amount(p)))]
    /\ pc' = [pc EXCEPT ![p] = "create"]
    /\ UNCHANGED <<cfgVars, timeVars, storeVars, first, second, wtxn,
                   req, ctx, attempt, attemptErr, result, histVars, envVars>>

UpdateDestFails(p) ==
    /\ pc[p] = "update_dest"
    /\ UpdateFails(p, "update_dest",
                   <<"failed", "to", "update", "destination", "balance">>)
    /\ UNCHANGED <<cfgVars, timeVars, storeVars, txVars, req, ctx, attempt, result, initBal, commits>>

\* the transaction record executeTransfer builds
NewTransaction(r, amount, id) ==
    [TransactionID |-> id, SourceAccountID |-> r.source,
     DestinationAccountID |-> r.dest, Amount |-> amount]

\* mutant: the sequence does not advance
NextvalStuck(n) == n

\* transaction_id BIGSERIAL: the sequence after it has given out n
Nextval(n) == n + 1

\* TransactionRepository.Create inside the transaction
CreateTransaction(p) ==
    /\ pc[p] = "create"
    /\ wtxn' = [wtxn EXCEPT ![p] = {NewTransaction(req[p], Amount(p), nextID)}]
    /\ nextID' = Nextval(nextID)
    /\ pc' = [pc EXCEPT ![p] = "commit"]
    /\ UNCHANGED <<cfgVars, timeVars, accounts, balance, lockedBy, ledger, first, second, wbal,
                   req, ctx, attempt, attemptErr, result, histVars, envVars>>

CreateTransactionFails(p) ==
    /\ pc[p] = "create"
    /\ \E cause \in FailCauses(p) :
        /\ Charge(cause)
        /\ FailAttempt(p, "create", cause,
            WrapError(CodeDatabaseError,
                      <<"failed", "to", "create", "transaction", "record">>,
                      Errorf(<<"insert", "transaction">>, cause)))
    /\ UNCHANGED <<cfgVars, timeVars, storeVars, txVars, req, ctx, attempt, result, initBal, commits>>

\* mutant: the locks outlive the transaction
ReleaseNone(p) == lockedBy

\* the store ends the transaction of p: its row locks are released
ReleaseLocks(p) == [a \in Accounts |-> IF lockedBy[a] = p THEN 0 ELSE lockedBy[a]]

\* mutant: the commit keeps only the rows the transaction wrote
CommittedBalanceOnly(p) ==
    [a \in Accounts |->
        IF \E x \in wbal[p] : x.AccountID = a
        THEN (CHOOSE x \in wbal[p] : x.AccountID = a).Balance
        ELSE 0]

\* the store makes the writes of p's transaction the committed state
CommittedBalance(p) ==
    [a \in Accounts |->
        IF \E x \in wbal[p] : x.AccountID = a
        THEN (CHOOSE x \in wbal[p] : x.AccountID = a).Balance
        ELSE balance[a]]

CommittedLedger(p) ==
    IF wtxn[p] = {} THEN ledger
    ELSE Append(ledger, CHOOSE t \in wtxn[p] : TRUE)

StoreCommits(p) ==
    /\ balance' = CommittedBalance(p)
    /\ ledger' = CommittedLedger(p)
    /\ lockedBy' = ReleaseLocks(p)
    /\ commits' = [commits EXCEPT ![p] = commits[p] + 1]
    /\ first' = [first EXCEPT ![p] = NoAccount]
    /\ second' = [second EXCEPT ![p] = NoAccount]
    /\ wbal' = [wbal EXCEPT ![p] = {}]
    /\ wtxn' = [wtxn EXCEPT ![p] = {}]

\* tx.Commit succeeds: executeTransfer and Transfer return the transaction
Commit(p) ==
    /\ pc[p] = "commit"
    /\ StoreCommits(p)
    /\ hist' = [hist EXCEPT ![p] = Append(hist[p], Outcome("ok", NoErr))]
    /\ Return(p, OkResult(CHOOSE t \in wtxn[p] : TRUE))
    /\ UNCHANGED <<cfgVars, timeVars, accounts, nextID, req, ctx, attempt, attemptErr, initBal, envVars>>

CommitErr(cause) ==
    WrapError(CodeDatabaseError,
              <<"failed", "to", "commit", "transaction">>, cause)

\* tx.Commit reports an error and the transaction is not committed
CommitFails(p) ==
    /\ pc[p] = "commit"
    /\ \E cause \in FailCauses(p) :
        /\ Charge(cause)
        /\ FailAttempt(p, "commit", cause, CommitErr(cause))
    /\ UNCHANGED <<cfgVars, timeVars, storeVars, txVars, req, ctx, attempt, result, initBal, commits>>

\* tx.Commit reports an error (the connection breaks, or the context ends,
\* before the store's reply arrives) although the store has committed
CommitLost(p) ==
    /\ pc[p] = "commit"
    /\ StoreCommits(p)
    /\ \E cause \in LostCauses(p) :
        /\ Charge(cause)
        /\ FailAttempt(p, "lost", cause, CommitErr(cause))
    /\ UNCHANGED <<cfgVars, timeVars, accounts, nextID, req, ctx, attempt, result, initBal>>

\* the deferred tx.Rollback of executeTransfer, then the loop of Transfer
Rollback(p) ==
    /\ pc[p] = "rollback"
    /\ lockedBy' = ReleaseLocks(p)
    /\ first' = [first EXCEPT ![p] = NoAccount]
    /\ second' = [second EXCEPT ![p] = NoAccount]
    /\ wbal' = [wbal EXCEPT ![p] = {}]
    /\ wtxn' = [wtxn EXCEPT ![p] = {}]
    /\ attemptErr' = [attemptErr EXCEPT ![p] = NoErr]
    /\ AfterAttempt(p, attemptErr[p])
    /\ UNCHANGED <<cfgVars, timeVars, accounts, balance, ledger, nextID, req, ctx, histVars, envVars>>

\* -------------------------------------------------------- account service
\* strings.Contains(errStr, "duplicate key") || strings.Contains(errStr, "23505")
isDuplicateKeyError(e) ==
    IF e = NoErr THEN FALSE
    ELSE LET errStr == ErrorText(e)
         IN \/ \E i \in 1..(Len(errStr) - 1) :
                  errStr[i] = "duplicate" /\ errStr[i + 1] = "key"
            \/ \E i \in 1..Len(errStr) : errStr[i] \in {"23505", "23505)"}

\* mutant: a zero balance is rejected
ValidateBalancePositive(r) ==
    LET bal == ParseMoney(r.initial_balance)
    IN IF ~bal.ok THEN ErrInvalidAmount
       ELSE IF bal.val <= 0 THEN ErrInvalidAmount
       ELSE NoErr

\* CreateAccount up to the first store access
ValidateBalance(r) ==
    LET bal == ParseMoney(r.initial_balance)
    IN IF ~bal.ok THEN ErrInvalidAmount
       ELSE IF bal.val < 0 THEN ErrInvalidAmount
       ELSE NoErr

CreateAccount(p, R) ==
    /\ pc[p] = "idle"
    /\ \E r \in {x \in R : x.op = "create"} :
        /\ req' = [req EXCEPT ![p] = r]
        /\ IF ValidateBalance(r) # NoErr
           THEN Return(p, ErrResult(ValidateBalance(r)))
           ELSE /\ pc' = [pc EXCEPT ![p] = "exists"]
                /\ UNCHANGED result
    /\ UNCHANGED <<cfgVars, timeVars, storeVars, txVars, ctx, attempt, attemptErr, histVars, envVars>>

\* AccountRepository.Exists answers
Exists(p) ==
    /\ pc[p] = "exists"
    /\ IF req[p].account_id \in accounts
       THEN Return(p, ErrResult(ErrAccountAlreadyExists))
       ELSE /\ pc' = [pc EXCEPT ![p] = "insert"]
            /\ UNCHANGED result
    /\ UNCHANGED <<cfgVars, timeVars, storeVars, txVars, req, ctx, attempt, attemptErr, histVars, envVars>>

ExistsFails(p) ==
    /\ pc[p] = "exists"
    /\ \E cause \in FailCauses(p) :
        /\ Charge(cause)
        /\ Return(p, ErrResult(WrapError(CodeDatabaseError,
                <<"failed", "to", "check", "account", "existence">>,
                Errorf(<<"check", "account", "exists">>, cause))))
    /\ UNCHANGED <<cfgVars, timeVars, storeVars, txVars, req, ctx, attempt, attemptErr, histVars>>

\* CreateAccount: what it returns for the error of AccountRepository.Create
CreateError(e) ==
    IF isDuplicateKeyError(e) THEN ErrAccountAlreadyExists
    ELSE WrapError(CodeDatabaseError,
                   <<"failed", "to", "create", "account">>, e)

\* AccountRepository.Create inserts the row
Insert(p) ==
    /\ pc[p] = "insert"
    /\ LET id == req[p].account_id
           bal == ParseMoney(req[p].initial_balance).val
       IN /\ id \notin accounts
          /\ accounts' = accounts \cup {id}
          /\ balance' = [balance EXCEPT ![id] = bal]
          /\ initBal' = [initBal EXCEPT ![id] = bal]
          /\ Return(p, AccountResult([AccountID |-> id, Balance |-> bal]))
    /\ UNCHANGED <<cfgVars, timeVars, lockedBy, ledger, nextID, txVars, req, ctx, attempt,
                   attemptErr, hist, commits, envVars>>

\* AccountRepository.Create meets the row a concurrent call has inserted:
\* the database reports the duplicate key, the in-memory store its
\* ErrAccountAlreadyExists
InsertDuplicate(p) ==
    /\ pc[p] = "insert"
    /\ req[p].account_id \in accounts
    /\ \E e \in {Errorf(<<"insert", "account">>, DuplicateKeyCause),
                 ErrAccountAlreadyExists} :
        Return(p, ErrResult(CreateError(e)))
    /\ UNCHANGED <<cfgVars, timeVars, storeVars, txVars, req, ctx, attempt, attemptErr, histVars, envVars>>

InsertFails(p) ==
    /\ pc[p] = "insert"
    /\ \E cause \in FailCauses(p) :
        /\ Charge(cause)
        /\ Return(p, ErrResult(CreateError(Errorf(<<"insert", "account">>, cause))))
    /\ UNCHANGED <<cfgVars, timeVars, storeVars, txVars, req, ctx, attempt, attemptErr, histVars>>

\* ----------------------------------------------------- transaction listing
DefaultPageSize == 20
MaxPageSize == 100

\* the limits and offsets callers ask for
PageLimits == {-1, 0, 1, DefaultPageSize, MaxPageSize, MaxPageSize + 1}

PageOffsets == {-1, 0, 1}

PageRequests ==
    [op : {"list"}, account_id : CallerIDs, limit : PageLimits, offset : PageOffsets]

\* mutant: the page size has no cap
PageLimitUncapped(limit) == IF limit <= 0 THEN DefaultPageSize ELSE limit

\* GetAccountTransactions: the limit handed to the store
PageLimit(limit) ==
    LET l == IF limit <= 0 THEN DefaultPageSize ELSE limit
    IN IF l > MaxPageSize THEN MaxPageSize ELSE l

\* GetAccountTransactions: the offset handed to the store
PageOffset(offset) == IF offset < 0 THEN 0 ELSE offset

RECURSIVE Reverse(_)
Reverse(q) == IF q = <<>> THEN <<>> ELSE Append(Reverse(Tail(q)), Head(q))

RECURSIVE Touching(_, _)
Touching(q, accountID) ==
    IF q = <<>> THEN <<>>
    ELSE IF accountID \in {Head(q).SourceAccountID, Head(q).DestinationAccountID}
         THEN <<Head(q)>> \o Touching(Tail(q), accountID)
         ELSE Touching(Tail(q), accountID)

\* TransactionRepository.GetByAccountID: the committed records touching the
\* account, newest first, LIMIT limit OFFSET offset
GetByAccountID(accountID, limit, offset) ==
    LET rows == Reverse(Touching(ledger, accountID))
        end == IF offset + limit > Len(rows) THEN Len(rows) ELSE offset + limit
    IN SubSeq(rows, offset + 1, end)

\* what GetAccountTransactions returns, with the limit and offset it handed
\* to the store
PageResult(page, limit, offset) ==
    [status |-> "ok", txn |-> NoTxn, account |-> NoAccount, err |-> NoErr,
     http |-> 0, page |-> page, limit |-> limit, offset |-> offset]

GetAccountTransactions(p, R) ==
    /\ pc[p] = "idle"
    /\ \E r \in {x \in R : x.op = "list"} :
        /\ req' = [req EXCEPT ![p] = r]
        /\ LET limit == PageLimit(r.limit)
               offset == PageOffset(r.offset)
           IN Return(p, PageResult(GetByAccountID(r.account_id, limit, offset),
                                   limit, offset))
    /\ UNCHANGED <<cfgVars, timeVars, storeVars, txVars, ctx, attempt, attemptErr, histVars, envVars>>

\* the query of GetByAccountID fails
GetAccountTransactionsFails(p, R) ==
    /\ pc[p] = "idle"
    /\ \E r \in {x \in R : x.op = "list"} :
        /\ req' = [req EXCEPT ![p] = r]
        /\ \E cause \in FailCauses(p) :
            /\ Charge(cause)
            /\ Return(p, ErrResult(Errorf(<<"query", "transactions", "for", "account">>,
                                          cause)))
    /\ UNCHANGED <<cfgVars, timeVars, storeVars, txVars, ctx, attempt, attemptErr, histVars>>

\* ------------------------------------------------------------ error values
\* the codes, messages and causes of the domain errors handed to
\* DomainError.Is and IsRetryable
ErrorCodes ==
    {CodeAccountNotFound, CodeInsufficientBalance, CodeInvalidAmount, CodeSameAccount,
     CodeTransferNotFound, CodeAccountAlreadyExists, CodeDuplicateTransaction,
     CodeDatabaseError, CodeTransactionFailed, CodeInternalError}

ErrorMessages ==
    {<<>>, <<"should", "match", "by", "code">>, <<"Connection", "pool", "exhausted">>}

ErrorCauses == {NoErr, DeadlockCause, ErrAccountNotFound}

\* the errors package models declares
DeclaredErrors ==
    {ErrAccountNotFound, ErrInsufficientBalance, ErrInvalidAmount, ErrSameAccount,
     ErrTransferNotFound, ErrAccountAlreadyExists, ErrDuplicateTransaction}

DomainErrors ==
    DeclaredErrors \cup
        {WrapError(c, msg, cause) : c \in ErrorCodes, msg \in ErrorMessages,
                                    cause \in ErrorCauses}

IsResult(e, target) ==
    [status |-> "ok", txn |-> NoTxn, account |-> NoAccount, err |-> NoErr, http |-> 0,
     is |-> DomainErrorIs(e, target), errorsIs |-> ErrorsIs(e, target),
     retryable |-> IsRetryable(e)]

\* a caller matches error e against target and asks whether e is retryable
MatchErrors(p, E) ==
    /\ pc[p] = "idle"
    /\ \E e \in E, target \in E :
        /\ req' = [req EXCEPT ![p] = [op |-> "is", err |-> e, target |-> target]]
        /\ Return(p, IsResult(e, target))
    /\ UNCHANGED <<cfgVars, timeVars, storeVars, txVars, ctx, attempt, attemptErr, histVars, envVars>>

AccountStep(p, R) ==
    \/ CreateAccount(p, R)
    \/ Exists(p)
    \/ ExistsFails(p)
    \/ Insert(p)
    \/ InsertDuplicate(p)
    \/ InsertFails(p)

TransferStep(p, R) ==
    \/ Transfer(p, R)
    \/ Cancel(p)
    \/ BackoffElapsed(p)
    \/ BackoffCancelled(p)
    \/ BeginTx(p)
    \/ BeginTxFails(p)
    \/ LockFirst(p)
    \/ LockFirstFails(p)
    \/ LockSecond(p)
    \/ LockSecondFails(p)
    \/ UpdateSource(p)
    \/ UpdateSourceFails(p)
    \/ UpdateDest(p)
    \/ UpdateDestFails(p)
    \/ CreateTransaction(p)
    \/ CreateTransactionFails(p)
    \/ Commit(p)
    \/ CommitFails(p)
    \/ CommitLost(p)
    \/ Rollback(p)

\* concurrent callers of both services
Next == \E p \in Procs : TransferStep(p, Requests) \/ AccountStep(p, Requests)

Spec == Init /\ [][Next]_vars

\* one transfer call, every amount text, failures enough to exhaust the retries
NextOne == TransferStep(1, TransferRequests(AmountTexts))

SpecOne == InitOne /\ [][NextOne]_vars

\* one transfer call of a service configured with any MaxRetries
NextConfig == TransferStep(1, TransferRequests(PositiveTexts))

SpecConfig == InitConfig /\ [][NextConfig]_vars

\* concurrent callers of the account service, every balance text
NextAccounts == \E p \in Procs : AccountStep(p, AccountRequests(AmountTexts))

InitAccounts == InitWith(SUBSET CallerIDs, MaxFaults) /\ Configured

SpecAccounts == InitAccounts /\ [][NextAccounts]_vars

\* concurrent transfer calls that the scheduler and the store keep serving:
\* a call that has been made and can take a step eventually takes one
NextLive == \E p \in Procs : TransferStep(p, TransferRequests(LiveTexts))

Runs(p) == pc[p] # "idle" /\ TransferStep(p, {})

SpecLive == Init /\ [][NextLive]_vars /\ \A p \in Procs : WF_vars(Runs(p))

\* one caller of the error functions, every pair of domain errors
NextErrors == MatchErrors(1, DomainErrors)

SpecErrors == Init /\ [][NextErrors]_vars

\* callers that list the transactions of an account while transfers run
NextPage ==
    \E p \in Procs :
        \/ TransferStep(p, TransferRequests(LiveTexts))
        \/ GetAccountTransactions(p, PageRequests)
        \/ GetAccountTransactionsFails(p, PageRequests)

SpecPage == Init /\ [][NextPage]_vars

\* the transfers a caller can ask for that share no account with the
\* transfer of a concurrent call
DisjointRequests(p) ==
    {r \in [op : {"transfer"}, source : Accounts, dest : Accounts, amount : LiveTexts] :
        \A q \in Procs \ {p} :
            req[q] = NoReq \/ {r.source, r.dest} \cap {req[q].source, req[q].dest} = {}}

\* concurrent transfers between disjoint pairs of accounts
NextDisjoint == \E p \in Procs : TransferStep(p, DisjointRequests(p))

InitDisjoint == InitWith({Accounts}, MaxFaults) /\ Configured

SpecDisjoint == InitDisjoint /\ [][NextDisjoint]_vars

\* ---------------------------------------------------------------- claims
RECURSIVE SumOver(_, _)
SumOver(f, S) ==
    IF S = {} THEN 0
    ELSE LET a == CHOOSE x \in S : TRUE
         IN f[a] + SumOver(f, S \ {a})

IsTransfer(p) == req[p].op = "transfer"

Last(q) == q[Len(q)]

\* the step commits one record and nothing else of the ledger changes
OneRecordAdded ==
    /\ Len(ledger') = Len(ledger) + 1
    /\ SubSeq(ledger', 1, Len(ledger)) = ledger

\* C1: in every committed store state the balances of the accounts created so
\* far add up to the balances they were created with, whatever calls have
\* succeeded, failed, been retried or been cancelled; and every step that
\* commits a transfer leaves the sum of its source and destination balances
\* as it was.
C1_Conservation ==
    /\ [](SumOver(balance, accounts) = SumOver(initBal, accounts))
    /\ [][ledger' # ledger =>
            LET t == Last(ledger')
            IN balance'[t.SourceAccountID] + balance'[t.DestinationAccountID]
               = balance[t.SourceAccountID] + balance[t.DestinationAccountID]]_vars

\* a call whose first attempt failed has committed, on a later attempt, a
\* transfer into an account created while it ran
C1_Witness ==
    \E i \in 1..Len(ledger) :
        /\ ledger[i].DestinationAccountID \notin 1..NumAccounts
        /\ \E p \in Procs : Len(hist[p]) >= 2 /\ result[p].status = "ok"

\* C2: no committed balance is negative.
C2_NonNegative == \A a \in Accounts : balance[a] >= 0

\* a committed transfer has taken a source with a positive balance to zero
C2_Witness ==
    \E i \in 1..Len(ledger) :
        /\ balance[ledger[i].SourceAccountID] = 0
        /\ initBal[ledger[i].SourceAccountID] > 0

\* call p waits for a row lock that call q holds
Waits(p, q) ==
    /\ p # q
    /\ pc[p] \in {"lock1", "lock2"}
    /\ LET id == IF pc[p] = "lock1" THEN FirstID(req[p]) ELSE SecondID(req[p])
       IN id \in accounts /\ lockedBy[id] = q

Holds(p) == \E a \in Accounts : lockedBy[a] = p

\* C3: no set of transfers waits in a circle, each holding a row lock and
\* waiting for a row lock that another of the set holds.
C3_NoCircularWait ==
    \A S \in SUBSET Procs \ {{}} :
        ~ \A p \in S : Holds(p) /\ \E q \in S : Waits(p, q)

\* two transfers in opposite directions between the same accounts, one
\* waiting for the row the other has locked
C3_Witness ==
    \E p, q \in Procs :
        /\ IsTransfer(p) /\ IsTransfer(q)
        /\ req[p].source = req[q].dest
        /\ req[p].dest = req[q].source
        /\ Waits(p, q)

\* the step adds an account and touches no other row
AccountAdded ==
    /\ accounts' # accounts
    /\ accounts \subseteq accounts'
    /\ ledger' = ledger
    /\ \A a \in accounts : balance'[a] = balance[a]

\* the step commits one whole transfer: the record, the debit and the credit
TransferApplied ==
    /\ OneRecordAdded
    /\ accounts' = accounts
    /\ LET t == Last(ledger')
       IN /\ t.SourceAccountID # t.DestinationAccountID
          /\ balance' = [balance EXCEPT
                           ![t.SourceAccountID] = @ - t.Amount,
                           ![t.DestinationAccountID] = @ + t.Amount]

\* C4: the committed state changes only by whole transfers: no step shows a
\* debit without its credit, a credit without its debit, a balance change
\* without its record or a record without its balance change, also when a
\* caller cancels while an attempt runs.
C4_AtomicVisibility ==
    [][(balance' # balance \/ ledger' # ledger) => (AccountAdded \/ TransferApplied)]_vars

\* a caller cancelled during an attempt and the call ended in an error, while
\* another call's transfer is committed
C4_Witness ==
    \E p, q \in Procs :
        /\ p # q
        /\ IsTransfer(p) /\ ctx[p] # "live" /\ hist[p] # <<>>
        /\ pc[p] = "done" /\ result[p].status = "err"
        /\ IsTransfer(q) /\ result[q].status = "ok"

\* C5: a Transfer call commits at most one attempt: exactly one if it returns
\* success, none if it returns an error.
C5_ExactlyOnce ==
    \A p \in Procs :
        /\ commits[p] <= 1
        /\ (pc[p] = "done" /\ IsTransfer(p)) =>
             /\ result[p].status = "ok" => commits[p] = 1
             /\ result[p].status = "err" => commits[p] = 0

\* no attempt of any call has failed in the store and no caller has cancelled
StoreWorks ==
    \A p \in Procs :
        /\ ctx[p] = "live"
        /\ \A i \in 1..Len(hist[p]) : hist[p][i].at \in {"ok", "funds", "missing"}

\* every call has asked for the whole balance of the same source, for the
\* same destination, and has returned
C6_Race ==
    /\ NumProcs >= 2
    /\ \A p \in Procs : pc[p] = "done" /\ IsTransfer(p) /\ req[p] = req[1]
    /\ req[1].source # req[1].dest
    /\ {req[1].source, req[1].dest} \subseteq accounts
    /\ Amount(1) > 0
    /\ Amount(1) = initBal[req[1].source]
    /\ StoreWorks

Succeeds(p) == IsTransfer(p) /\ result[p].status # "ok" /\ result'[p].status = "ok"

Called(p) == pc[p] = "idle" /\ pc'[p] # "idle" /\ req'[p].op = "transfer"

\* the call returns e at once and the store is as it was
Refused(p, e) ==
    /\ pc'[p] = "done"
    /\ result'[p] = ErrResult(e)
    /\ UNCHANGED <<storeVars, txVars, histVars>>

\* C8: a Transfer whose source is its destination returns SameAccount at
\* once, whatever its amount text, with no store transaction begun, no row
\* locked and nothing written.
C8_SameAccount ==
    [][\A p \in Procs :
          (Called(p) /\ req'[p].source = req'[p].dest) => Refused(p, ErrSameAccount)]_vars

\* a call naming one account twice, with an amount that does not parse, has
\* returned SameAccount
C8_Witness ==
    /\ IsTransfer(1)
    /\ req[1].source = req[1].dest
    /\ req[1].amount = <<"a">>
    /\ result[1] = ErrResult(ErrSameAccount)

\* amount texts: empty, not a number, zero, negative
InvalidTexts == {<<>>, <<"a">>, <<"0">>, <<"-", "1">>}

\* C9: a Transfer between two distinct ids whose amount text is empty,
\* unparsable, zero or negative returns InvalidAmount at once, with no store
\* transaction begun, no row locked and nothing written, whether or not the
\* accounts exist.
C9_InvalidAmount ==
    [][\A p \in Procs :
          (/\ Called(p)
           /\ req'[p].source # req'[p].dest
           /\ req'[p].amount \in InvalidTexts) => Refused(p, ErrInvalidAmount)]_vars

\* a call for amount zero between two accounts that do not exist has
\* returned InvalidAmount
C9_Witness ==
    /\ IsTransfer(1)
    /\ req[1].source # req[1].dest
    /\ req[1].source \notin accounts
    /\ req[1].dest \notin accounts
    /\ req[1].amount = <<"0">>
    /\ result[1] = ErrResult(ErrInvalidAmount)

\* the attempt failed at a lock step with the store's transient error
LockTransient(e) == e.at = "lock" /\ e.cause = DeadlockCause

\* the first n attempts of call p failed transiently at a lock step
LockTransients(p, n) ==
    /\ Len(hist[p]) >= n
    /\ \A i \in 1..n : LockTransient(hist[p][i])

\* the request of call p can be served: its accounts exist and the source
\* holds the amount
Servable(p) ==
    /\ {req[p].source, req[p].dest} \subseteq accounts
    /\ initBal[req[p].source] >= Amount(p)

\* C10: with maxRetries >= 2, a servable transfer whose first two attempts
\* fail with a transient error at a lock step is not given up before a third
\* attempt unless the caller cancels, and when the store works on the third
\* attempt the call returns success with a valid record after exactly three
\* attempts, the balances showing one application of the transfer.
C10_ThirdAttempt ==
    \A p \in Procs :
        (MaxRetries >= 2 /\ IsTransfer(p) /\ Servable(p)) =>
            /\ (/\ pc[p] = "done"
                /\ Len(hist[p]) \in 1..2
                /\ LockTransients(p, Len(hist[p]))) => ctx[p] # "live"
            /\ (/\ Len(hist[p]) >= 3
                /\ LockTransients(p, 2)
                /\ hist[p][3].at \in {"ok", "funds", "missing"}) =>
                  /\ Len(hist[p]) = 3
                  /\ pc[p] = "done"
                  /\ result[p].status = "ok"
                  /\ result[p].txn = NewTransaction(req[p], Amount(p), result[p].txn.TransactionID)
                  /\ result[p].txn.TransactionID >= 1
                  /\ ledger = <<result[p].txn>>
                  /\ commits[p] = 1
                  /\ balance[req[p].source] = initBal[req[p].source] - Amount(p)
                  /\ balance[req[p].dest] = initBal[req[p].dest] + Amount(p)

\* two transient lock failures, then the third attempt committed
C10_Witness ==
    /\ Len(hist[1]) = 3
    /\ LockTransients(1, 2)
    /\ hist[1][3].at = "ok"
    /\ result[1].status = "ok"

\* the kind of an error: the code of its outermost layer
HeadCode(e) == IF e = NoErr THEN "" ELSE e[1].code

\* what an error wraps
Cause(e) == IF e = NoErr THEN NoErr ELSE Tail(e)

\* the attempt ended in an error caused by a transient failure of the store
Transient(e) ==
    /\ e.at \in {"lock", "store", "lost"}
    /\ e.cause \in {DeadlockCause, ConnectionCause}

AllTransient(p) == \A i \in 1..Len(hist[p]) : Transient(hist[p][i])

\* call p returns an error of kind TransactionFailed in this step
Exhausts(p) ==
    /\ IsTransfer(p)
    /\ result'[p] # result[p]
    /\ HeadCode(result'[p].err) = CodeTransactionFailed

\* the error of the attempt that ends in this step: the one executeTransfer
\* is returning while its rollback runs, or the one of the failed BeginTx
AttemptError(p) ==
    IF pc[p] = "rollback" THEN attemptErr[p]
    ELSE BeginErr(Last(hist'[p]).cause)

\* C11: a call all of whose attempts fail with a retryable error, and whose
\* caller does not cancel, makes exactly maxRetries + 1 attempts and returns
\* an error of kind TransactionFailed; the error TransactionFailed wraps is
\* the error of the attempt that ended last.
C11_Exhausted ==
    /\ [](\A p \in Procs :
            (/\ IsTransfer(p) /\ pc[p] = "done" /\ ctx[p] = "live"
             /\ hist[p] # <<>> /\ AllTransient(p)) =>
                /\ Len(hist[p]) = maxRetries + 1
                /\ HeadCode(result[p].err) = CodeTransactionFailed
                /\ Cause(result[p].err) # NoErr)
    /\ [][\A p \in Procs : (Exhausts(p) /\ maxRetries >= 0) =>
            /\ pc[p] \in {"rollback", "begin"}
            /\ Len(hist'[p]) = maxRetries + 1
            /\ Cause(result'[p].err) = AttemptError(p)
            /\ AttemptError(p) # NoErr]_vars

\* the retries are exhausted, the first attempt having failed at a lock step
\* and the last one at another store operation
C11_Witness ==
    /\ pc[1] = "done"
    /\ HeadCode(result[1].err) = CodeTransactionFailed
    /\ Len(hist[1]) = MaxRetries + 1
    /\ hist[1][1].at = "lock"
    /\ Last(hist[1]).at = "store"

\* store transactions call p has begun: one for every attempt that has ended,
\* a failed BeginTx counted, and one if an attempt is inside its transaction
Attempts(p) ==
    Len(hist[p]) +
    (IF pc[p] \in {"lock1", "lock2", "update_source", "update_dest", "create", "commit"}
     THEN 1 ELSE 0)

\* backoff waits call p has entered: the loop counter of Transfer
Sleeps(p) == attempt[p]

\* C12: whatever the store does, a Transfer call begins at most
\* maxRetries + 1 attempts and waits in backoff at most maxRetries times.
C12_BoundedRetry ==
    \A p \in Procs :
        /\ Attempts(p) <= maxRetries + 1
        /\ Sleeps(p) <= maxRetries

\* a call has used every attempt and every backoff wait it has
C12_Witness ==
    /\ pc[1] = "done"
    /\ Len(hist[1]) = maxRetries + 1
    /\ attempt[1] = maxRetries
    /\ maxRetries >= 2

\* C13: Transfer returns an error of kind TransactionFailed only after its
\* attempts, maxRetries + 1 of them, have all failed with a retryable error,
\* and the error carries a cause, for every configured maxRetries.
C13_OnlyAfterExhaustion ==
    \A p \in Procs :
        (/\ IsTransfer(p) /\ pc[p] = "done"
         /\ HeadCode(result[p].err) = CodeTransactionFailed) =>
            /\ Len(hist[p]) >= 1
            /\ Len(hist[p]) = maxRetries + 1
            /\ AllTransient(p)
            /\ Cause(result[p].err) # NoErr

\* the attempt found an account missing or the source short of the amount
Fatal(e) == e.at \in {"missing", "funds"}

FatalError(e) ==
    IF e.at = "missing" THEN ErrAccountNotFound ELSE ErrInsufficientBalance

\* call p has no store transaction open: no row lock, no pending write
Closed(p) == ~Holds(p) /\ wbal[p] = {} /\ wtxn[p] = {}

\* C14: an attempt that fails with AccountNotFound or InsufficientBalance is
\* the last attempt of its call: the call goes from the attempt to its
\* rollback and returns that very error, with no backoff and no further
\* attempt, and its transaction is closed.
C14_FatalEndsCall ==
    \A p \in Procs :
        (IsTransfer(p) /\ hist[p] # <<>>) =>
            /\ \A i \in 1..(Len(hist[p]) - 1) : ~Fatal(hist[p][i])
            /\ Fatal(Last(hist[p])) =>
                 \/ pc[p] = "rollback" /\ attemptErr[p] = FatalError(Last(hist[p]))
                 \/ /\ pc[p] = "done"
                    /\ result[p] = ErrResult(FatalError(Last(hist[p])))
                    /\ Closed(p)

\* a call locked its first account, found the second missing, and has
\* returned AccountNotFound
C14_Witness ==
    \E p \in Procs :
        /\ IsTransfer(p)
        /\ pc[p] = "done"
        /\ result[p] = ErrResult(ErrAccountNotFound)
        /\ FirstID(req[p]) \in accounts
        /\ SecondID(req[p]) \notin accounts
        /\ Len(hist[p]) = 1

\* call p gets its second row lock in this step and makes the balance check
Checks(p) == pc[p] = "lock2" /\ second'[p] # second[p]

\* C15: the attempt that holds both row locks fails with InsufficientBalance
\* exactly when the committed balance of the request's source is below the
\* amount, and goes on to its writes otherwise; InsufficientBalance arises at
\* no other step; a successful transfer of the whole source balance leaves
\* the source at 0.
C15_Sufficiency ==
    [][\A p \in Procs : IsTransfer(p) =>
          /\ Checks(p) =>
               /\ (attemptErr'[p] = ErrInsufficientBalance)
                    <=> (balance[req[p].source] < Amount(p))
               /\ balance[req[p].source] >= Amount(p) => pc'[p] = "update_source"
          /\ (/\ attemptErr'[p] = ErrInsufficientBalance
              /\ attemptErr[p] # ErrInsufficientBalance) => Checks(p)
          /\ (Succeeds(p) /\ balance[req[p].source] = Amount(p)) =>
               balance'[req[p].source] = 0]_vars

\* a transfer of exactly the balance of its source has succeeded, the source
\* is at 0, and another call has been refused for want of funds
C15_Witness ==
    \E p, q \in Procs :
        /\ IsTransfer(p) /\ result[p].status = "ok"
        /\ Amount(p) = initBal[req[p].source]
        /\ balance[req[p].source] = 0
        /\ IsTransfer(q) /\ result[q] = ErrResult(ErrInsufficientBalance)

\* C16: when a Transfer call has returned an error, the committed balances
\* and the transaction records are those of a store the call never touched
\* (here: the one call of the run, so the initial ones).
C16_UnchangedOnError ==
    \A p \in Procs :
        (IsTransfer(p) /\ pc[p] = "done" /\ result[p].status = "err") =>
            /\ balance = initBal
            /\ ledger = <<>>

\* call p leaves its backoff wait in this step, its context ended
LeavesBackoffCancelled(p) ==
    pc[p] = "backoff" /\ pc'[p] # "backoff" /\ ctx'[p] # "live"

\* C17: a call whose context is cancelled, or past its deadline, when it
\* leaves a backoff wait returns at that step the error of the context, not
\* TransactionFailed and not the error of its last attempt, and begins no
\* transaction, takes no lock and writes nothing.
C17_CancelInBackoff ==
    [][\A p \in Procs : LeavesBackoffCancelled(p) =>
          /\ pc'[p] = "done"
          /\ result'[p] = ErrResult(CtxErr(ctx'[p]))
          /\ UNCHANGED <<storeVars, txVars, histVars>>]_vars

\* a call whose deadline passed in a backoff wait after a failed attempt has
\* returned the deadline error
C17_Witness ==
    /\ pc[1] = "done"
    /\ ctx[1] = "deadline"
    /\ attempt[1] >= 1
    /\ hist[1] # <<>> /\ AllTransient(1)
    /\ result[1] = ErrResult(DeadlineExceeded)

\* the error is, or wraps, the error of an ended context
FromContext(e) ==
    \E i \in 1..Len(e) : <<e[i]>> \in {ContextCanceled, DeadlineExceeded}

\* C18: an error Transfer returns because the caller's context ended is
\* never of kind DatabaseError or TransactionFailed, also when the context
\* ended while an attempt was at a store operation.
C18_CancellationDistinct ==
    \A p \in Procs :
        (IsTransfer(p) /\ pc[p] = "done" /\ FromContext(result[p].err)) =>
            HeadCode(result[p].err) \notin {CodeDatabaseError, CodeTransactionFailed}

\* CreateAccount is called by p in this step
CalledCreate(p) == pc[p] = "idle" /\ pc'[p] # "idle" /\ req'[p].op = "create"

\* balance texts: empty, not a number, negative
BadBalanceTexts == {<<>>, <<"a">>, <<"-", "1">>}

\* the number a balance text denotes
Denotes(text) ==
    CASE text = <<"0">> -> 0
      [] text = <<"1">> -> 1
      [] text = <<"2">> -> 2

\* the store answers call p, which is at step at, in this step
Answered(p, at) == pc[p] = at /\ pc'[p] # at /\ budget' = budget

\* C19: CreateAccount returns InvalidAmount at once, the store untouched,
\* for a balance text that is empty, not a number or negative, and goes on
\* to the store for any other text, zero included; when the existence check
\* finds the id it returns AccountAlreadyExists and changes nothing; when the
\* id is free and the store works the account is stored with the balance the
\* text denotes and returned; no step of a CreateAccount call changes the
\* balance of an account that exists.
C19_CreateAccount ==
    [][\A p \in Procs :
          /\ (CalledCreate(p) /\ req'[p].initial_balance \in BadBalanceTexts) =>
                Refused(p, ErrInvalidAmount)
          /\ (CalledCreate(p) /\ req'[p].initial_balance \notin BadBalanceTexts) =>
                pc'[p] = "exists" /\ UNCHANGED storeVars
          /\ (Answered(p, "exists") /\ req[p].account_id \in accounts) =>
                Refused(p, ErrAccountAlreadyExists)
          /\ (Answered(p, "exists") /\ req[p].account_id \notin accounts) =>
                pc'[p] = "insert" /\ UNCHANGED storeVars
          /\ (Answered(p, "insert") /\ req[p].account_id \notin accounts) =>
                LET id == req[p].account_id
                    bal == Denotes(req[p].initial_balance)
                IN /\ accounts' = accounts \cup {id}
                   /\ balance'[id] = bal
                   /\ result'[p] = AccountResult([AccountID |-> id, Balance |-> bal])
                   /\ pc'[p] = "done"
          /\ \A a \in accounts : a \in accounts' /\ balance'[a] = balance[a]]_vars

\* an account has been created with balance zero, and a later call for the
\* same id with another balance has been refused
C19_Witness ==
    \E p, q \in Procs :
        /\ req[p].op = "create" /\ req[q].op = "create"
        /\ result[p] = AccountResult([AccountID |-> req[p].account_id, Balance |-> 0])
        /\ req[q].account_id = req[p].account_id
        /\ req[q].initial_balance = <<"2">>
        /\ result[q] = ErrResult(ErrAccountAlreadyExists)
        /\ balance[req[p].account_id] = 0

\* the error is, or wraps, a signal of the store that the id is taken
DuplicateSignal(e) ==
    \E i \in 1..Len(e) : <<e[i]>> \in {ErrAccountAlreadyExists, DuplicateKeyCause}

\* C20: a CreateAccount call that passed the existence check and lost the
\* insert to a concurrent call for the same id returns AccountAlreadyExists,
\* in either form the store signals the duplicate.
C20_DuplicateRace ==
    \A p \in Procs :
        (req[p].op = "create" /\ pc[p] = "done" /\ DuplicateSignal(result[p].err)) =>
            result[p] = ErrResult(ErrAccountAlreadyExists)

\* the constraints of table transactions hold of record t
RecordOK(t) ==
    /\ t.Amount > 0
    /\ t.SourceAccountID # t.DestinationAccountID
    /\ t.SourceAccountID \in accounts
    /\ t.DestinationAccountID \in accounts

\* the transaction ids given out so far and still in the store
IdsInStore ==
    {ledger[i].TransactionID : i \in 1..Len(ledger)}
        \cup UNION {{t.TransactionID : t \in wtxn[q]} : q \in Procs}

\* C21: every transaction record, committed or inserted by an open
\* transaction, has a positive amount, different source and destination and
\* two accounts that exist; the committed records are only ever added to,
\* never changed or removed; and every record gets, when it is created, an id
\* greater than the id of every record created before it.
C21_Ledger ==
    /\ [](/\ \A i \in 1..Len(ledger) : RecordOK(ledger[i])
          /\ \A p \in Procs : \A t \in wtxn[p] : RecordOK(t)
          /\ \A i, j \in 1..Len(ledger) :
                i # j => ledger[i].TransactionID # ledger[j].TransactionID)
    /\ [][/\ Len(ledger') >= Len(ledger)
          /\ SubSeq(ledger', 1, Len(ledger)) = ledger
          /\ \A p \in Procs :
                (pc[p] = "create" /\ wtxn'[p] # {}) =>
                    \A t \in wtxn'[p] : \A n \in IdsInStore : t.TransactionID > n]_vars

\* two callers have each committed a record, and an id given to a record that
\* was rolled back is missing from the ledger
C21_Witness ==
    /\ Len(ledger) >= 2
    /\ \E p, q \in Procs : p # q /\ commits[p] > 0 /\ commits[q] > 0
    /\ \E i \in 1..Len(ledger) : ledger[i].TransactionID > i

\* C22: every Transfer call that has been made eventually returns, with the
\* transaction or with an error, when every call that can take a step
\* eventually takes one.
C22_Terminates ==
    \A p \in Procs :
        (pc[p] # "idle") ~> (pc[p] = "done" /\ result[p].status \in {"ok", "err"})

\* a call has returned after it waited for a row lock and backed off
C22_Witness ==
    \E p, q \in Procs :
        /\ p # q
        /\ pc[p] = "done" /\ pc[q] = "done"
        /\ result[p].status = "ok"
        /\ attempt[q] > 0
        /\ req[p].source = req[q].dest /\ req[p].dest = req[q].source

\* calls p and q are transfers that share no account
Disjoint(p, q) ==
    /\ p # q
    /\ IsTransfer(p) /\ IsTransfer(q)
    /\ {req[p].source, req[p].dest} \cap {req[q].source, req[q].dest} = {}

\* C23: of two concurrent transfers between disjoint pairs of accounts
\* neither ever waits for a row lock the other holds, and wherever the other
\* is, each can take its next step towards its commit: both locks, both
\* updates, the insert of the record and the commit.
C23_DisjointParallel ==
    \A p, q \in Procs :
        Disjoint(p, q) =>
            /\ ~Waits(p, q)
            /\ pc[p] = "lock1" => ENABLED LockFirst(p)
            /\ pc[p] = "lock2" => ENABLED LockSecond(p)
            /\ pc[p] = "update_source" => ENABLED UpdateSource(p)
            /\ pc[p] = "update_dest" => ENABLED UpdateDest(p)
            /\ pc[p] = "create" => ENABLED CreateTransaction(p)
            /\ pc[p] = "commit" => ENABLED Commit(p)

\* two transfers between disjoint pairs hold their two row locks each, both
\* about to commit
C23_Witness ==
    \E p, q \in Procs :
        /\ Disjoint(p, q)
        /\ pc[p] = "commit" /\ pc[q] = "commit"
        /\ Cardinality({a \in Accounts : lockedBy[a] # 0}) = 2 * NumProcs

\* C24: the status written for a failed transfer is 400 for SameAccount and
\* InvalidAmount, 422 for InsufficientBalance, 404 for AccountNotFound, 504
\* when the deadline has passed, and 500 for every other error Transfer
\* returns, the caller's cancellation included.
C24_StatusMapping ==
    \A p \in Procs :
        (IsTransfer(p) /\ pc[p] = "done" /\ result[p].status = "err") =>
            LET e == result[p].err
            IN result[p].http =
                 CASE HeadCode(e) \in {CodeSameAccount, CodeInvalidAmount} -> 400
                   [] HeadCode(e) = CodeInsufficientBalance -> 422
                   [] HeadCode(e) = CodeAccountNotFound -> 404
                   [] \E i \in 1..Len(e) : <<e[i]>> = DeadlineExceeded -> 504
                   [] OTHER -> 500

\* GetAccountTransactions is called by p, and returns, in this step
Listed(p) == pc[p] = "idle" /\ pc'[p] = "done" /\ req'[p].op = "list"

\* C25: GetAccountTransactions hands the store the limit 20 for a limit of 0
\* or less, 100 for a limit above 100 and the limit itself otherwise, and the
\* offset 0 for a negative offset and the offset itself otherwise, so that
\* the limit is between 1 and 100 and the offset is not negative; it returns
\* without an error when the store's query works, also when no record is
\* found.
C25_Pagination ==
    [][\A p \in Procs :
          Listed(p) =>
             /\ (budget' = budget /\ ctx[p] = "live") => result'[p].status = "ok"
             /\ result'[p].status = "ok" =>
                   LET limit == req'[p].limit
                       offset == req'[p].offset
                   IN /\ result'[p].limit = IF limit <= 0 THEN 20
                                            ELSE IF limit > 100 THEN 100 ELSE limit
                      /\ result'[p].offset = IF offset < 0 THEN 0 ELSE offset
                      /\ result'[p].limit \in 1..100
                      /\ result'[p].offset >= 0
                      /\ Len(result'[p].page) <= result'[p].limit]_vars

\* a call with a limit above the cap and a negative offset has returned an
\* empty page, without an error, from a ledger that holds a record
C25_Witness ==
    \E p \in Procs :
        /\ req[p].op = "list" /\ pc[p] = "done"
        /\ req[p].limit > MaxPageSize /\ req[p].offset < 0
        /\ result[p] = PageResult(<<>>, MaxPageSize, 0)
        /\ ledger # <<>>

MinID(r) == IF r.source < r.dest THEN r.source ELSE r.dest

MaxID(r) == IF r.source < r.dest THEN r.dest ELSE r.source

\* call p is granted the row lock of account a in this step
Granted(p, a) == lockedBy[a] # p /\ lockedBy'[a] = p

\* C27: in every attempt of every transfer the row lock of the lower account
\* id is requested first and is held before the lock of the higher id is
\* requested, whichever of the two is the source: a call holding the higher
\* lock holds the lower, a call that requests its second lock holds the
\* lower, and the rows are read in the order lower, higher.
C27_LockOrder ==
    /\ [](\A p \in Procs :
            IsTransfer(p) =>
                /\ lockedBy[MaxID(req[p])] = p => lockedBy[MinID(req[p])] = p
                /\ pc[p] = "lock2" => lockedBy[MinID(req[p])] = p
                /\ first[p] # NoAccount => first[p].AccountID = MinID(req[p])
                /\ second[p] # NoAccount =>
                      /\ second[p].AccountID = MaxID(req[p])
                      /\ first[p] # NoAccount)
    /\ [][\A p \in Procs : \A a \in Accounts :
            Granted(p, a) =>
                \/ pc[p] = "lock1" /\ a = MinID(req[p])
                \/ pc[p] = "lock2" /\ a = MaxID(req[p]) /\ lockedBy[MinID(req[p])] = p]_vars

\* a transfer from a higher to a lower id has, on a retry, read and locked
\* the lower id first and the higher second
C27_Witness ==
    \E p \in Procs :
        /\ IsTransfer(p)
        /\ req[p].source > req[p].dest
        /\ attempt[p] > 0
        /\ <<first[p].AccountID, second[p].AccountID>> = <<req[p].dest, req[p].source>>
        /\ lockedBy[req[p].dest] = p /\ lockedBy[req[p].source] = p

\* C28: when BeginTx fails, whatever the cause, Transfer returns a
\* DatabaseError at once: the attempt is not followed by a wait and another
\* attempt.
C28_BeginFatal ==
    [][\A p \in Procs :
          (pc[p] = "begin" /\ pc'[p] \notin {"begin", "lock1"}) =>
              /\ pc'[p] = "done"
              /\ HeadCode(result'[p].err) = CodeDatabaseError]_vars

\* C29: the first attempt, like every later one, starts with a look at the
\* context: a call whose context has ended before its first BeginTx returns
\* the context's error and begins no store transaction.
C29_CheckedAtEntry ==
    [][\A p \in Procs :
          (pc[p] = "begin" /\ attempt[p] = 0 /\ ctx[p] # "live" /\ pc'[p] # "begin") =>
              /\ pc'[p] = "done"
              /\ result'[p].err = CtxErr(ctx[p])]_vars

\* the store transaction the current attempt of p has begun is open
TxOpen(p) ==
    \/ pc[p] \in {"lock1", "lock2", "update_source", "update_dest", "create", "commit"}
    \/ pc[p] = "rollback" /\ Last(hist[p]).at # "lost"

\* the step ends the transaction of p by a commit / by a rollback
EndsByCommit(p) ==
    /\ pc[p] = "commit"
    /\ commits'[p] = commits[p] + 1
    /\ ledger' = CommittedLedger(p)

EndsByRollback(p) ==
    /\ pc[p] = "rollback"
    /\ commits'[p] = commits[p]
    /\ UNCHANGED <<accounts, balance, ledger>>

\* C30: a store transaction is begun only by the BeginTx of an attempt, and
\* every attempt that has begun one ends it once, by a commit or by a
\* rollback and never by both, before the attempt is over: after the end the
\* store holds no lock and no pending write of it, a call between attempts
\* or returned has no transaction open, and a rollback that follows a commit
\* that took effect changes nothing.
C30_ScopeEndedOnce ==
    /\ [](\A p \in Procs :
            /\ ~TxOpen(p) /\ pc[p] # "rollback" => Closed(p)
            /\ pc[p] = "rollback" /\ ~TxOpen(p) => Closed(p))
    /\ [][\A p \in Procs :
            /\ (~TxOpen(p) /\ TxOpen(p)') => (pc[p] = "begin" /\ pc'[p] = "lock1")
            /\ (TxOpen(p) /\ ~TxOpen(p)') =>
                  /\ EndsByCommit(p) # EndsByRollback(p)
                  /\ Closed(p)'
            /\ (pc[p] = "rollback" /\ ~TxOpen(p) /\ pc'[p] # "rollback") =>
                  UNCHANGED storeVars
            /\ (pc[p] # pc'[p] /\ pc'[p] \in {"backoff", "done"}) => ~TxOpen(p)']_vars

\* one call has ended three transactions, two by rollback and the last by
\* commit
C30_Witness ==
    \E p \in Procs :
        /\ IsTransfer(p) /\ pc[p] = "done"
        /\ Len(hist[p]) = MaxRetries + 1
        /\ \A i \in 1..MaxRetries : hist[p][i].at = "lock"
        /\ commits[p] = 1
        /\ result[p].status = "ok"

\* the steps of an attempt after the sufficiency check
WriteSteps == {"update_source", "update_dest", "create", "commit"}

\* the store fails call p at one of the write steps in this step
WriteFails(p) == pc[p] \in WriteSteps /\ pc'[p] = "rollback"

\* the attempt of p that is rolling back failed at a write step
WriteFailed(p) == pc[p] = "rollback" /\ Last(hist[p]).at \in {"store", "lost"}

\* the last layer of an error chain: the store's own error
Innermost(e) == <<e[Len(e)]>>

\* C31: when an update of either balance, the insert of the record or the
\* commit fails, the attempt returns, its rollback done, a DatabaseError
\* that wraps the store's error; Transfer then waits for another attempt
\* exactly when the store's error is transient and fewer than
\* maxRetries + 1 attempts have run, and otherwise returns that
\* DatabaseError, if the error is not transient, or a TransactionFailed that
\* wraps it.
C31_WriteFailure ==
    [][\A p \in Procs :
          /\ WriteFails(p) =>
                /\ HeadCode(attemptErr'[p]) = CodeDatabaseError
                /\ Innermost(attemptErr'[p]) = Last(hist'[p]).cause
                /\ Last(hist'[p]).cause # NoErr
          /\ (WriteFailed(p) /\ pc'[p] # "rollback") =>
                LET e == attemptErr[p]
                    transient == Last(hist[p]).cause \in {DeadlockCause, ConnectionCause}
                IN /\ HeadCode(e) = CodeDatabaseError
                   /\ Closed(p)'
                   /\ IF transient /\ Len(hist[p]) < maxRetries + 1
                      THEN pc'[p] = "backoff" /\ attempt'[p] = attempt[p] + 1
                      ELSE /\ pc'[p] = "done"
                           /\ result'[p].status = "err"
                           /\ result'[p].err =
                                IF transient
                                THEN WrapError(CodeTransactionFailed,
                                               <<"transfer", "failed", "after", "retries">>, e)
                                ELSE e]_vars

\* a call has returned TransactionFailed after an update, the insert of the
\* record or the commit failed with a deadlock in each of its attempts
C31_Witness ==
    \E p \in Procs :
        /\ IsTransfer(p) /\ pc[p] = "done"
        /\ Len(hist[p]) = MaxRetries + 1
        /\ \A i \in 1..Len(hist[p]) :
              hist[p][i].at = "store" /\ hist[p][i].cause = DeadlockCause
        /\ HeadCode(result[p].err) = CodeTransactionFailed
        /\ HeadCode(Cause(result[p].err)) = CodeDatabaseError

\* a description holds one of the transient markers, in either case
MarkerIn(words) == \E i \in 1..Len(words) : ToLower(words[i]) \in RetryPatterns

\* C32: IsRetryable answers for a domain error exactly what the description
\* of the cause it wraps says: retryable when that description holds a
\* transient marker, not retryable otherwise, whatever the code and the
\* message of the domain error itself.
C32_CauseOnly ==
    \A p \in Procs :
        (req[p].op = "is" /\ pc[p] = "done") =>
            (result[p].retryable <=> MarkerIn(ErrorText(Cause(req[p].err))))

\* the sum of a sequence of delays
RECURSIVE Total(_)
Total(q) == IF q = <<>> THEN 0 ELSE Head(q) + Total(Tail(q))

\* an attempt of call p is running
Running(p) ==
    pc[p] \in {"begin", "lock1", "lock2", "update_source", "update_dest",
               "create", "commit", "rollback"}

Steps(p) == pc'[p] # pc[p] /\ req'[p].op = "transfer"

\* C34: the step that commits a transfer changes the balances of its source
\* and its destination and no other, adds exactly one record and leaves the
\* earlier records as they were; every other step of a Transfer leaves all
\* balances and records alone; and no step of a Transfer adds or removes an
\* account.
C34_Frame ==
    [][\A p \in Procs :
          Steps(p) =>
              /\ accounts' = accounts
              /\ IF commits'[p] # commits[p]
                 THEN /\ \A a \in Accounts \ {req[p].source, req[p].dest} :
                            balance'[a] = balance[a]
                      /\ balance'[req[p].source] # balance[req[p].source]
                      /\ balance'[req[p].dest] # balance[req[p].dest]
                      /\ OneRecordAdded
                 ELSE balance' = balance /\ ledger' = ledger]_vars

\* two transfers are committed; the second left the record and the non-zero
\* balances of the first as they were
C34_Witness ==
    /\ Len(ledger) = 2
    /\ \A p \in Procs : commits[p] = 1
    /\ LET t == ledger[1]
       IN /\ {t.SourceAccountID, t.DestinationAccountID}
                \cap {ledger[2].SourceAccountID, ledger[2].DestinationAccountID} = {}
          /\ balance[t.DestinationAccountID] = initBal[t.DestinationAccountID] + t.Amount
          /\ balance[t.SourceAccountID] > 0

\* C35: a Transfer that has returned holds no row lock, whatever the outcome:
\* success, a validation error, a missing account, insufficient balance, a
\* failure after the first lock was taken, exhausted retries, or a
\* cancellation during the backoff; nor does a call hold one between attempts.
C35_NoLockLeak ==
    \A p \in Procs :
        pc[p] \in {"idle", "backoff", "done"} =>
            \A a \in Accounts : lockedBy[a] # p

\* a call took the lock of its lower account, found the higher account
\* missing and returned; another was cancelled while it waited to retry
C35_Witness ==
    \E p, q \in Procs :
        /\ IsTransfer(p) /\ pc[p] = "done"
        /\ hist[p] # <<>> /\ Last(hist[p]).at = "missing"
        /\ FirstID(req[p]) \in accounts
        /\ IsTransfer(q) /\ pc[q] = "done"
        /\ hist[q] # <<>> /\ Last(hist[q]).at = "lock"
        /\ result[q].err \in {ContextCanceled, DeadlineExceeded}

\* the balances b after the records q are applied one at a time, in order
RECURSIVE Replay(_, _)
Replay(b, q) ==
    IF q = <<>> THEN b
    ELSE Replay([b EXCEPT ![Head(q).SourceAccountID] = @ - Head(q).Amount,
                          ![Head(q).DestinationAccountID] = @ + Head(q).Amount],
                Tail(q))

\* the amounts of the committed records that name a as destination / source
RECURSIVE Credits(_, _)
Credits(a, q) ==
    IF q = <<>> THEN 0
    ELSE (IF Head(q).DestinationAccountID = a THEN Head(q).Amount ELSE 0)
         + Credits(a, Tail(q))

RECURSIVE Debits(_, _)
Debits(a, q) ==
    IF q = <<>> THEN 0
    ELSE (IF Head(q).SourceAccountID = a THEN Head(q).Amount ELSE 0)
         + Debits(a, Tail(q))

\* C36: in every committed state the balances are those that result from
\* applying the committed transfers one at a time, in commit order, to the
\* initial balances, no balance going negative on the way; equivalently every
\* balance is its initial balance plus the amounts of the committed records
\* that name the account as destination minus those that name it as source.
C36_SerialEquivalence ==
    /\ balance = Replay(initBal, ledger)
    /\ \A k \in 0..Len(ledger) : \A a \in Accounts :
          Replay(initBal, SubSeq(ledger, 1, k))[a] >= 0
    /\ \A a \in Accounts :
          balance[a] = initBal[a] + Credits(a, ledger) - Debits(a, ledger)

\* two concurrent calls have both committed, the second spending what the
\* first delivered
C36_Witness ==
    /\ Len(ledger) = 2
    /\ \A p \in Procs : IsTransfer(p) /\ result[p].status = "ok"
    /\ ledger[2].SourceAccountID = ledger[1].DestinationAccountID
    /\ initBal[ledger[2].SourceAccountID] < ledger[2].Amount

\* call p is between two attempts, or before its first
BetweenAttempts(p) == pc[p] \in {"begin", "backoff"}

\* the rows call p has read in its current attempt
ReadRows(p) == {first[p], second[p]} \ {NoAccount}

\* C37: every attempt begins with nothing kept from the attempt before: no
\* row read, no write pending, no lock held. A row an attempt has read is
\* read under the lock the attempt holds and shows the balance committed at
\* that moment, changes committed by other calls since the attempt before
\* included; the balances an attempt writes are computed from the rows it
\* read itself; and its commit changes the balances committed then, by the
\* amount, so that no change committed by another call is overwritten.
C37_NoLostUpdate ==
    /\ [](\A p \in Procs :
            IsTransfer(p) =>
                /\ BetweenAttempts(p) =>
                      /\ ReadRows(p) = {}
                      /\ wbal[p] = {} /\ wtxn[p] = {}
                      /\ ~Holds(p)
                /\ \A r \in ReadRows(p) :
                      TxOpen(p) =>
                          /\ lockedBy[r.AccountID] = p
                          /\ r.Balance = balance[r.AccountID]
                /\ \A w \in wbal[p] :
                      /\ w.AccountID = req[p].source =>
                            w.Balance = balance[req[p].source] - Amount(p)
                      /\ w.AccountID = req[p].dest =>
                            w.Balance = balance[req[p].dest] + Amount(p))
    /\ [][\A p \in Procs :
            commits'[p] # commits[p] =>
                /\ balance'[req[p].source] = balance[req[p].source] - Amount(p)
                /\ balance'[req[p].dest] = balance[req[p].dest] + Amount(p)]_vars

\* after a failed attempt, a call has read on its retry a balance that
\* another call's commit has changed, and is about to write
C37_Witness ==
    \E p, q \in Procs :
        /\ p # q
        /\ IsTransfer(p) /\ attempt[p] >= 1
        /\ pc[p] = "update_source"
        /\ IsTransfer(q) /\ commits[q] = 1
        /\ \E r \in ReadRows(p) :
              /\ r.AccountID \in {req[q].source, req[q].dest}
              /\ r.Balance # initBal[r.AccountID]

\* the attempts of call p whose transaction the store has committed
Applied(p) == {i \in 1..Len(hist[p]) : hist[p][i].at \in {"ok", "lost"}}

\* a commit of call p took effect and was reported as a transient failure
LostTransient(p) ==
    \E i \in 1..Len(hist[p]) :
        hist[p][i].at = "lost" /\ hist[p][i].cause = ConnectionCause

\* C38: a call one of whose commits took effect in the store and was reported
\* to the engine as a transient error has debited its source once: the store
\* has committed one attempt of it, and the source is down by the amount
\* once.
C38_DebitOnce ==
    \A p \in Procs :
        (IsTransfer(p) /\ LostTransient(p)) =>
            /\ Cardinality(Applied(p)) = 1
            /\ commits[p] = 1
            /\ Debits(req[p].source, ledger) = Amount(p)

\* the attempt of call p holds the row locks of both accounts of its request
HoldsBoth(p) == lockedBy[req[p].source] = p /\ lockedBy[req[p].dest] = p

\* C39: within an attempt a balance is read only in the step that takes the
\* row lock; the sufficiency check is made and the balances are written only
\* while the attempt holds the locks of both accounts; a lock is given up
\* only by the commit or the rollback that ends the attempt; and while an
\* attempt holds the lock of an account no other transaction changes that
\* account's balance.
C39_TwoPhaseLocking ==
    /\ [](\A p \in Procs :
            IsTransfer(p) =>
                /\ pc[p] \in WriteSteps => HoldsBoth(p)
                /\ (wbal[p] # {} \/ wtxn[p] # {}) => HoldsBoth(p)
                /\ \A a \in Accounts : lockedBy[a] = p => TxOpen(p))
    /\ [][\A p \in Procs :
            /\ (first'[p] # first[p] /\ first'[p] # NoAccount) =>
                  Granted(p, first'[p].AccountID)
            /\ (second'[p] # second[p] /\ second'[p] # NoAccount) =>
                  Granted(p, second'[p].AccountID)
            /\ (Len(hist'[p]) > Len(hist[p]) /\ Last(hist'[p]).at = "funds") =>
                  HoldsBoth(p)'
            /\ \A a \in Accounts :
                  /\ (lockedBy[a] = p /\ lockedBy'[a] # p) =>
                        /\ lockedBy'[a] = 0
                        /\ EndsByCommit(p) \/ EndsByRollback(p)
                  /\ (lockedBy[a] = p /\ balance'[a] # balance[a]) =>
                        EndsByCommit(p)]_vars

\* a call holding both locks is about to commit its writes while another
\* call waits for one of the two rows
C39_Witness ==
    \E p, q \in Procs :
        /\ IsTransfer(p) /\ pc[p] = "commit"
        /\ HoldsBoth(p)
        /\ Cardinality(wbal[p]) = 2
        /\ IsTransfer(q) /\ Waits(q, p)

\* the error the precedence SameAccount, InvalidAmount, AccountNotFound,
\* InsufficientBalance gives the request of call p, NoErr when none applies
Precedence(p) ==
    IF req[p].source = req[p].dest THEN ErrSameAccount
    ELSE IF req[p].amount \in InvalidTexts THEN ErrInvalidAmount
    ELSE IF ~({req[p].source, req[p].dest} \subseteq accounts) THEN ErrAccountNotFound
    ELSE IF initBal[req[p].source] < Denotes(req[p].amount) THEN ErrInsufficientBalance
    ELSE NoErr

\* an attempt of call p ends in this step, at outcome at
EndsAt(p, at) == Len(hist'[p]) > Len(hist[p]) /\ Last(hist'[p]).at = at

\* C40: with the store working, a Transfer returns the first error that
\* applies in the order SameAccount, InvalidAmount, AccountNotFound,
\* InsufficientBalance, and succeeds when none does; in particular a source
\* without the funds and a missing destination give AccountNotFound. A
\* missing account is found at the lookup of the smaller id when that one is
\* missing, no lock taken, and otherwise at the lookup of the larger id with
\* the smaller locked; the balance is judged insufficient only with both
\* accounts locked.
C40_ErrorPrecedence ==
    /\ [](\A p \in Procs :
            (IsTransfer(p) /\ pc[p] = "done" /\ StoreWorks) =>
                /\ result[p].err = Precedence(p)
                /\ Precedence(p) = NoErr <=> result[p].status = "ok")
    /\ [][\A p \in Procs :
            /\ EndsAt(p, "missing") =>
                 IF MinID(req[p]) \notin accounts
                 THEN pc[p] = "lock1" /\ FirstID(req[p]) = MinID(req[p]) /\ ~Holds(p)
                 ELSE /\ pc[p] = "lock2" /\ SecondID(req[p]) = MaxID(req[p])
                      /\ MaxID(req[p]) \notin accounts
                      /\ lockedBy[MinID(req[p])] = p
            /\ EndsAt(p, "funds") => HoldsBoth(p)']_vars

\* the source has less than the amount and the destination does not exist:
\* the call has returned AccountNotFound
C40_Witness ==
    /\ IsTransfer(1) /\ pc[1] = "done" /\ StoreWorks
    /\ req[1].source \in accounts
    /\ req[1].dest \notin accounts
    /\ req[1].amount = <<"2">>
    /\ initBal[req[1].source] = 0
    /\ result[1] = ErrResult(ErrAccountNotFound)
====
